---- MODULE Spec2Model ----
(***************************************************************************)
(* A model of reportanalyzer.py: the MedicalReportAnalyzer class (text     *)
(* normalisation, regex finding extraction, record list, summary, export,  *)
(* reset) and the Streamlit script main() that drives it.                  *)
(*                                                                         *)
(* Strings are sequences of one-character strings, so that re.sub, strip,  *)
(* split, finditer and sorted are computed character by character.  The    *)
(* character U+0000 is written "NUL".                                      *)
(*                                                                         *)
(* Three specifications share the variables:                               *)
(*   Spec      the analyzer object under any order of calls of its public  *)
(*             methods and of the Settings handlers that assign its        *)
(*             findings_patterns;                                          *)
(*   SpecMain  the Streamlit script main(): every action is one user       *)
(*             interaction followed by the complete script run;            *)
(*   SpecFn    the pure functions _clean_text and extract_key_findings     *)
(*             applied to inputs drawn from a bounded set.                 *)
(* Timestamps (datetime.now()) are not modelled.                           *)
(***************************************************************************)
EXTENDS Naturals, Sequences, FiniteSets

VARIABLES
    reports,              \* self.reports
    summary,              \* self.summary
    findings_patterns,    \* self.findings_patterns
    op,                   \* the method called last
    arg,                  \* the name of the file given to the last process_file
    ret,                  \* what the last call returned (or that it raised)
    exported,             \* export_data of the last export_to_json
    uploaded_files,       \* the file_uploader widget of the Upload tab
    uploaded_files_count, \* st.session_state.uploaded_files_count
    processed_files,      \* st.session_state.processed_files
    edited_summary,       \* st.session_state.edited_summary
    config_file,          \* the file_uploader widget of the Settings tab
    run,                  \* how the last script run of main() ended
    text,                 \* SpecFn: the input string
    content,              \* SpecFn: _clean_text(text)
    content2,             \* SpecFn: _clean_text(_clean_text(text))
    key_findings,         \* SpecFn: extract_key_findings(content)
    pc                    \* SpecFn: position in the flow

analyzerVars == <<reports, summary, findings_patterns>>
callVars == <<op, arg, ret, exported>>
sessionVars == <<uploaded_files, uploaded_files_count, processed_files,
                 edited_summary, config_file, run>>
fnVars == <<text, content, content2, key_findings, pc>>
vars == <<analyzerVars, callVars, sessionVars, fnVars>>

----------------------------------------------------------------------------
(* Bounds of the model.                                                    *)

\* longest input string SpecFn draws over CleanAlphabet
MaxLen == 5
\* most records the analyzer holds under Spec
MaxReports == 2
\* most files in the upload widget under SpecMain
MaxFiles == 2

----------------------------------------------------------------------------
(* Characters and strings.                                                 *)

\* the characters re's \s, str.strip and str.split treat as whitespace
WhiteSpace == {" ", "\t", "\n"}

\* the characters for which str.isprintable() is False
NonPrintable == {"NUL", "\t", "\n"}

UpperCase == <<"A","B","C","D","E","F","G","H","I","J","K","L","M",
               "N","O","P","Q","R","S","T","U","V","W","X","Y","Z">>
LowerCase == <<"a","b","c","d","e","f","g","h","i","j","k","l","m",
               "n","o","p","q","r","s","t","u","v","w","x","y","z">>

\* the model's characters in increasing code point order
CodePoints ==
    <<"NUL", "\t", "\n", " ", "!", ".", "0", "1", ":", "?">>
        \o UpperCase \o LowerCase

Range(s) == {s[i] : i \in 1..Len(s)}

\* the element of a one-element set
Only(S) == CHOOSE x \in S : TRUE

Chars == Range(CodePoints)

\* str.lower() of one character; re.IGNORECASE compares the lower cases
LowerOf ==
    [c \in Chars |->
        IF \E i \in 1..Len(UpperCase) : UpperCase[i] = c
        THEN LowerCase[CHOOSE i \in 1..Len(UpperCase) : UpperCase[i] = c]
        ELSE c]

Lower(c) == LowerOf[c]

\* the position of a character in the code point order
OrdOf == [c \in Chars |-> CHOOSE i \in 1..Len(CodePoints) : CodePoints[i] = c]

Ord(c) == OrdOf[c]

\* str < str of Python: code point order, a proper prefix is smaller
RECURSIVE StrLess(_, _)
StrLess(a, b) ==
    IF b = <<>> THEN FALSE
    ELSE IF a = <<>> THEN TRUE
    ELSE IF Head(a) # Head(b) THEN Ord(Head(a)) < Ord(Head(b))
    ELSE StrLess(Tail(a), Tail(b))

\* str.lstrip() / str.rstrip() / str.strip()
RECURSIVE LStrip(_)
LStrip(s) ==
    IF s # <<>> /\ Head(s) \in WhiteSpace THEN LStrip(Tail(s)) ELSE s

RECURSIVE RStrip(_)
RStrip(s) ==
    IF s # <<>> /\ s[Len(s)] \in WhiteSpace
    THEN RStrip(SubSeq(s, 1, Len(s) - 1)) ELSE s

Strip(s) == LStrip(RStrip(s))

\* re.sub(r'\n+', '\n', s): every run of newlines becomes one newline
RECURSIVE CollapseNewlines(_)
CollapseNewlines(s) ==
    IF s = <<>> THEN <<>>
    ELSE IF Head(s) = "\n" /\ Len(s) > 1 /\ s[2] = "\n"
         THEN CollapseNewlines(Tail(s))
         ELSE <<Head(s)>> \o CollapseNewlines(Tail(s))

\* re.sub(r'\s+', ' ', s): every run of whitespace becomes one space
RECURSIVE CollapseSpaces(_)
CollapseSpaces(s) ==
    IF s = <<>> THEN <<>>
    ELSE IF Head(s) \in WhiteSpace
         THEN IF Len(s) > 1 /\ s[2] \in WhiteSpace
              THEN CollapseSpaces(Tail(s))
              ELSE <<" ">> \o CollapseSpaces(Tail(s))
         ELSE <<Head(s)>> \o CollapseSpaces(Tail(s))

IsKept(c) == c \notin NonPrintable \/ c = "\n"

\* ''.join(c for c in s if c.isprintable() or c == '\n')
RemoveNonPrintable(s) == SelectSeq(s, IsKept)

\* MedicalReportAnalyzer._clean_text
CleanText(s) ==
    IF s = <<>> THEN <<>>
    ELSE Strip(RemoveNonPrintable(CollapseSpaces(CollapseNewlines(s))))

\* len(s.split()): the number of maximal runs of non-whitespace
RECURSIVE WordCount(_)
WordCount(s) ==
    IF s = <<>> THEN 0
    ELSE (IF Head(s) \notin WhiteSpace /\ (Len(s) = 1 \/ s[2] \in WhiteSpace)
          THEN 1 ELSE 0) + WordCount(Tail(s))

----------------------------------------------------------------------------
(* Patterns.  A pattern string is modelled by what re does with it: either *)
(* it does not compile (re.error), or it has the shape of the defaults,    *)
(*     (?:k1|...|kn)[:\s](.*?)(?:\n|$)                                     *)
(* matched with re.IGNORECASE, and is given by its keywords k1..kn.        *)

Pattern(kws) == [valid |-> TRUE, keywords |-> kws]

\* a pattern string that is not a regular expression, such as "("
InvalidPattern == [valid |-> FALSE, keywords |-> <<>>]

\* diagnoses: (?:diagnosis|assessment|impression|diagnosed with)[:\s](.*?)(?:\n|$)
DiagnosesKeywords ==
    << <<"d","i","a","g","n","o","s","i","s">>,
       <<"a","s","s","e","s","s","m","e","n","t">>,
       <<"i","m","p","r","e","s","s","i","o","n">>,
       <<"d","i","a","g","n","o","s","e","d"," ","w","i","t","h">> >>

\* medications: (?:medication|drug|prescription|prescribed)[:\s](.*?)(?:\n|$)
MedicationsKeywords ==
    << <<"m","e","d","i","c","a","t","i","o","n">>,
       <<"d","r","u","g">>,
       <<"p","r","e","s","c","r","i","p","t","i","o","n">>,
       <<"p","r","e","s","c","r","i","b","e","d">> >>

\* vitals: (?:vital|measurement|blood pressure|temperature|pulse|height|weight)[:\s](.*?)(?:\n|$)
VitalsKeywords ==
    << <<"v","i","t","a","l">>,
       <<"m","e","a","s","u","r","e","m","e","n","t">>,
       <<"b","l","o","o","d"," ","p","r","e","s","s","u","r","e">>,
       <<"t","e","m","p","e","r","a","t","u","r","e">>,
       <<"p","u","l","s","e">>,
       <<"h","e","i","g","h","t">>,
       <<"w","e","i","g","h","t">> >>

\* lab_results: (?:lab|laboratory|test|result|blood work)[:\s](.*?)(?:\n|$)
LabResultsKeywords ==
    << <<"l","a","b">>,
       <<"l","a","b","o","r","a","t","o","r","y">>,
       <<"t","e","s","t">>,
       <<"r","e","s","u","l","t">>,
       <<"b","l","o","o","d"," ","w","o","r","k">> >>

\* recommendations: (?:recommendation|plan|follow up|advised)[:\s](.*?)(?:\n|$)
RecommendationsKeywords ==
    << <<"r","e","c","o","m","m","e","n","d","a","t","i","o","n">>,
       <<"p","l","a","n">>,
       <<"f","o","l","l","o","w"," ","u","p">>,
       <<"a","d","v","i","s","e","d">> >>

\* the five fixed category names
Categories ==
    {"diagnoses", "medications", "vitals", "lab_results", "recommendations"}

\* a registry: whether the value is a dict, and its items
Registry(items) == [is_dict |-> TRUE, items |-> items]

\* self.findings_patterns as __init__ sets it
DefaultPatterns ==
    Registry([c \in Categories |->
        CASE c = "diagnoses" -> Pattern(DiagnosesKeywords)
          [] c = "medications" -> Pattern(MedicationsKeywords)
          [] c = "vitals" -> Pattern(VitalsKeywords)
          [] c = "lab_results" -> Pattern(LabResultsKeywords)
          [] c = "recommendations" -> Pattern(RecommendationsKeywords)])

----------------------------------------------------------------------------
(* re.finditer for a pattern of the modelled shape.                        *)

\* the characters [:\s] accepts
Separators == {":"} \cup WhiteSpace

\* keyword k stands at position p of s, compared case-insensitively
StartsWithAt(s, p, k) ==
    /\ p + Len(k) - 1 <= Len(s)
    /\ \A i \in 1..Len(k) : Lower(s[p + i - 1]) = Lower(k[i])

\* alternative i matches at p and [:\s] accepts the character after it
AltMatches(kws, s, p, i) ==
    /\ StartsWithAt(s, p, kws[i])
    /\ p + Len(kws[i]) <= Len(s)
    /\ s[p + Len(kws[i])] \in Separators

\* the length of the first alternative (in the pattern's order) with which
\* the pattern matches at p, or 0: after [:\s] the rest always matches
AltMatchLen(kws, s, p) ==
    IF \E i \in 1..Len(kws) : AltMatches(kws, s, p, i)
    THEN Len(kws[CHOOSE i \in 1..Len(kws) :
                    /\ AltMatches(kws, s, p, i)
                    /\ \A j \in 1..(i - 1) : ~AltMatches(kws, s, p, j)])
    ELSE 0

\* (.*?)(?:\n|$) from position p: the position of the first newline at or
\* after p, or Len(s) + 1
RECURSIVE LineEnd(_, _)
LineEnd(s, p) ==
    IF p > Len(s) \/ s[p] = "\n" THEN p ELSE LineEnd(s, p + 1)

\* match.group(1) of every match of re.finditer, scanning from p; a match
\* consumes the newline that ends it
RECURSIVE FindIter(_, _, _)
FindIter(kws, s, p) ==
    IF p > Len(s) THEN <<>>
    ELSE LET n == AltMatchLen(kws, s, p)
             e == LineEnd(s, p + n + 1)
         IN IF n = 0 THEN FindIter(kws, s, p + 1)
            ELSE <<SubSeq(s, p + n + 1, e - 1)>> \o FindIter(kws, s, e + 1)

\* `len(text) > 2`: the shortest finding kept has more characters than this
MinFindingLen == 2

\* lines 143-148: strip each group, drop the short ones, collapse whitespace
RECURSIVE KeepFindings(_)
KeepFindings(groups) ==
    IF groups = <<>> THEN <<>>
    ELSE LET t == Strip(Head(groups))
         IN (IF Len(t) > MinFindingLen
             THEN <<Strip(CollapseSpaces(t))>> ELSE <<>>)
            \o KeepFindings(Tail(groups))

\* the findings dict extract_key_findings starts from
EmptyFindings == [c \in Categories |-> <<>>]

\* extract_key_findings as it would be if a pattern that does not compile
\* were skipped instead of raising
extract_key_findings_skipping(patterns, c) ==
    IF c = <<>> THEN [raised |-> FALSE, findings |-> EmptyFindings]
    ELSE IF ~patterns.is_dict
    THEN [raised |-> TRUE, findings |-> EmptyFindings]
    ELSE [raised |-> FALSE,
          findings |->
            [k \in Categories \cup DOMAIN patterns.items |->
                IF k \in DOMAIN patterns.items /\ patterns.items[k].valid
                THEN KeepFindings(FindIter(patterns.items[k].keywords, c, 1))
                ELSE <<>>]]

\* MedicalReportAnalyzer.extract_key_findings: what it returns, or that it
\* raised (.items() of a non-dict, or re.error of a pattern)
extract_key_findings(patterns, c) ==
    IF c = <<>> THEN [raised |-> FALSE, findings |-> EmptyFindings]
    ELSE IF ~patterns.is_dict
    THEN [raised |-> TRUE, findings |-> EmptyFindings]
    ELSE IF \E k \in DOMAIN patterns.items : ~patterns.items[k].valid
    THEN [raised |-> TRUE, findings |-> EmptyFindings]
    ELSE [raised |-> FALSE,
          findings |->
            [k \in Categories \cup DOMAIN patterns.items |->
                IF k \in DOMAIN patterns.items
                THEN KeepFindings(FindIter(patterns.items[k].keywords, c, 1))
                ELSE <<>>]]

----------------------------------------------------------------------------
(* Files and process_file.                                                 *)

\* an uploaded file: its name, Path(name).suffix, whether reading it
\* succeeds (UTF-8 decoding, PyPDF2, python-docx) and the text read
File(name, suffix, readable, txt) ==
    [name |-> name, suffix |-> suffix, readable |-> readable, text |-> txt]

\* str.lower() of the suffix
LowerStr(s) == [i \in 1..Len(s) |-> Lower(s[i])]

\* the extensions process_file has a branch for
Supported ==
    {<<".","p","d","f">>, <<".","t","x","t">>,
     <<".","d","o","c">>, <<".","d","o","c","x">>}

\* len(sent_tokenize(content)): a sentence ends at . ! or ? before a space
SentenceCount(c) ==
    IF c = <<>> THEN 0
    ELSE 1 + Cardinality({i \in 1..(Len(c) - 1) :
                            c[i] \in {".", "!", "?"} /\ c[i + 1] = " "})

\* the report dict of process_file, without the timestamp 'date'
Report(file, ext, c, kf) ==
    [name |-> file.name,
     content |-> c,
     type |-> ext,
     key_findings |-> kf,
     metadata |-> [word_count |-> WordCount(c),
                   character_count |-> Len(c),
                   sentence_count |-> SentenceCount(c)]]

\* lines 69-83: the content is cleaned; extract_key_findings runs, and the
\* report is appended unless it raised
append_report(rs, patterns, file, ext, c) ==
    Only({IF kf.raised THEN [reports |-> rs, ret |-> FALSE]
          ELSE [reports |-> Append(rs, Report(file, ext, c, kf.findings)),
                ret |-> TRUE] :
          kf \in {extract_key_findings(patterns, c)}})

\* MedicalReportAnalyzer.process_file on the record list rs: the list
\* afterwards and the value returned
process_file(rs, patterns, file) ==
    LET ext == LowerStr(file.suffix)
    IN IF ext \notin Supported THEN [reports |-> rs, ret |-> FALSE]
       ELSE IF ~file.readable THEN [reports |-> rs, ret |-> FALSE]
       ELSE Only({append_report(rs, patterns, file, ext, c) :
                  c \in {CleanText(file.text)}})

----------------------------------------------------------------------------
(* generate_summary, export_to_json, clear_data.                           *)

\* the empty dict {}
EmptyDict == <<>>

\* MedicalReportAnalyzer._count_report_types
count_report_types(rs) ==
    [t \in {rs[i].type : i \in 1..Len(rs)} |->
        Cardinality({i \in 1..Len(rs) : rs[i].type = t})]

RECURSIVE SumWords(_)
SumWords(rs) ==
    IF rs = <<>> THEN 0
    ELSE Head(rs).metadata.word_count + SumWords(Tail(rs))

RECURSIVE SumSentences(_)
SumSentences(rs) ==
    IF rs = <<>> THEN 0
    ELSE Head(rs).metadata.sentence_count + SumSentences(Tail(rs))

\* lines 179-181: the set each category accumulates
CategorySet(rs, c) ==
    UNION {Range(rs[i].key_findings[c]) : i \in 1..Len(rs)}

\* sorted(list(S)) for a set of strings
RECURSIVE SortedList(_)
SortedList(S) ==
    IF S = {} THEN <<>>
    ELSE LET m == CHOOSE x \in S : \A y \in S \ {x} : StrLess(x, y)
         IN <<m>> \o SortedList(S \ {m})

\* the summary dict lines 162-187 build, without the timestamps of
\* 'report_dates'; the quotient of line 175 is kept as the pair
\* <<sum, count>>
BuildSummary(rs) ==
    [total_reports |-> Len(rs),
     report_types |-> count_report_types(rs),
     key_findings |-> [c \in Categories |-> SortedList(CategorySet(rs, c))],
     metadata |-> [total_word_count |-> SumWords(rs),
                   avg_sentences_per_report |-> <<SumSentences(rs), Len(rs)>>]]

\* generate_summary as it would be without the check of lines 159-160: the
\* quotient of line 175 divides by len(self.reports)
generate_summary_unguarded(rs, sm) ==
    IF rs = <<>> THEN [summary |-> sm, ret |-> "ZeroDivisionError"]
    ELSE IF \E i \in 1..Len(rs) : DOMAIN rs[i].key_findings # Categories
    THEN [summary |-> sm, ret |-> "KeyError"]
    ELSE [summary |-> BuildSummary(rs), ret |-> "formatted"]

\* MedicalReportAnalyzer.generate_summary: self.summary afterwards and what
\* the call returned; summary['key_findings'][category] of line 181 raises
\* KeyError for a category that is not one of the five
generate_summary(rs, sm) ==
    IF rs = <<>> THEN [summary |-> sm, ret |-> "sentinel"]
    ELSE IF \E i \in 1..Len(rs) : DOMAIN rs[i].key_findings # Categories
    THEN [summary |-> sm, ret |-> "KeyError"]
    ELSE [summary |-> BuildSummary(rs), ret |-> "formatted"]

\* MedicalReportAnalyzer.format_summary: the fixed text of lines 211-212, or
\* the formatted summary
format_summary(sm) ==
    IF sm = EmptyDict THEN "No summary available." ELSE "formatted"

\* export_data of MedicalReportAnalyzer.export_to_json, without the
\* timestamp 'generated_at'
export_to_json(rs, sm) == [summary |-> sm, reports |-> rs]

\* export_data before any export
NoExport == [summary |-> EmptyDict, reports |-> <<>>]

----------------------------------------------------------------------------
(* The Settings tab: pattern edits and configuration loads.                *)

\* an uploaded configuration file: whether it decodes and parses as JSON,
\* whether the parsed object has the key "patterns", and that value
Config(parses, has_patterns, patterns) ==
    [parses |-> parses, has_patterns |-> has_patterns, patterns |-> patterns]

\* lines 583-584: findings_patterns[category] = new_pattern
set_pattern(patterns, category, new_pattern) ==
    Registry([k \in DOMAIN patterns.items |->
                IF k = category THEN new_pattern ELSE patterns.items[k]])

\* lines 618-627: the registry after the load
load_config(patterns, cfg) ==
    IF cfg.parses /\ cfg.has_patterns THEN cfg.patterns ELSE patterns

\* lines 623-627: what the load reports
load_message(cfg) ==
    IF cfg.parses /\ cfg.has_patterns THEN "success" ELSE "error"

----------------------------------------------------------------------------
(* The files, configurations and pattern edits the actions draw from.      *)

\* "Diagnosis: Flu"
FluText == <<"D","i","a","g","n","o","s","i","s",":"," ","F","l","u">>
\* "Diagnosis: Cold"
ColdText == <<"D","i","a","g","n","o","s","i","s",":"," ","C","o","l","d">>
\* " \n\t": nothing is left of it after _clean_text
BlankText == <<" ","\n","\t">>

FluTxt == File("flu.txt", <<".","t","x","t">>, TRUE, FluText)
ColdPdf == File("COLD.PDF", <<".","P","D","F">>, TRUE, ColdText)
BlankTxt == File("blank.txt", <<".","t","x","t">>, TRUE, BlankText)
\* a text file that is not valid UTF-8
BadTxt == File("bad.txt", <<".","t","x","t">>, FALSE, <<>>)
\* a .docx file python-docx cannot open
BadDocx == File("bad.docx", <<".","d","o","c","x">>, FALSE, <<>>)
\* an extension process_file has no branch for
ReportXls == File("report.xls", <<".","x","l","s">>, TRUE, FluText)

\* the files a caller of process_file may pass
Files == {FluTxt, ColdPdf, BlankTxt, BadTxt, ReportXls}

\* the files the user has at hand for the upload widget, which accepts
\* type=['txt','pdf','doc','docx']
UploadableFiles == {FluTxt, ColdPdf, BadDocx}

\* a user's pattern (?:dx)[:\s](.*?)(?:\n|$)
DxPattern == Pattern(<< <<"d","x">> >>)

\* the default registry with the diagnoses pattern replaced by DxPattern
DxPatterns == set_pattern(DefaultPatterns, "diagnoses", DxPattern)

\* a user's pattern (?:allergy)[:\s](.*?)(?:\n|$)
AllergyPattern == Pattern(<< <<"a","l","l","e","r","g","y">> >>)

\* {"patterns": {the five names, diagnoses changed}, "version": "1.1.0"}
ValidConfig == Config(TRUE, TRUE, DxPatterns)
\* {"patterns": {"allergies": "..."}, "version": "1.1.0"}
ForeignKeysConfig ==
    Config(TRUE, TRUE, Registry([k \in {"allergies"} |-> AllergyPattern]))
\* {"patterns": {}, "version": "1.1.0"}
EmptyPatternsConfig == Config(TRUE, TRUE, Registry(EmptyDict))
\* {"patterns": [], "version": "1.1.0"}
ListPatternsConfig == Config(TRUE, TRUE, [is_dict |-> FALSE, items |-> EmptyDict])
\* {"version": "1.1.0"}
NoPatternsConfig == Config(TRUE, FALSE, Registry(EmptyDict))
\* a file that is not JSON
NotJsonConfig == Config(FALSE, FALSE, Registry(EmptyDict))

Configs == {ValidConfig, ForeignKeysConfig, EmptyPatternsConfig,
            ListPatternsConfig, NoPatternsConfig, NotJsonConfig}

\* the configuration files the user of main() has at hand
MainConfigs == {ValidConfig, ListPatternsConfig, NoPatternsConfig}

\* what a user types into a pattern field
TypedPatterns == {InvalidPattern, DxPattern}

\* the characters of the strings SpecFn normalises
CleanAlphabet == {"a", " ", "\n", "NUL"}

\* "Diagnosis: Hypertension\nMedication: Lisinopril 10mg\n"
ScenarioText ==
    <<"D","i","a","g","n","o","s","i","s",":"," ","H","y","p","e","r","t",
      "e","n","s","i","o","n","\n","M","e","d","i","c","a","t","i","o","n",
      ":"," ","L","i","s","i","n","o","p","r","i","l"," ","1","0","m","g",
      "\n">>

\* the inputs of SpecFn
Inputs ==
    UNION {[1..n -> CleanAlphabet] : n \in 0..MaxLen}
        \cup {ScenarioText, FluText, BlankText}

----------------------------------------------------------------------------
(* Initial states.                                                         *)

\* MedicalReportAnalyzer.__init__
InitAnalyzer ==
    /\ reports = <<>>
    /\ summary = EmptyDict
    /\ findings_patterns = DefaultPatterns

InitCall ==
    /\ op = "__init__"
    /\ arg = ""
    /\ ret = "None"
    /\ exported = NoExport

\* lines 381-385 and the widgets before any interaction
InitSession ==
    /\ uploaded_files = <<>>
    /\ uploaded_files_count = 0
    /\ processed_files = <<>>
    /\ edited_summary = ""
    /\ config_file = <<>>
    /\ run = "completed"

FnIdle ==
    /\ text = <<>>
    /\ content = <<>>
    /\ content2 = <<>>
    /\ key_findings = EmptyFindings
    /\ pc = "idle"

Init == InitAnalyzer /\ InitCall /\ InitSession /\ FnIdle

InitFn ==
    /\ InitAnalyzer /\ InitCall /\ InitSession
    /\ text \in Inputs
    /\ content = <<>>
    /\ content2 = <<>>
    /\ key_findings = EmptyFindings
    /\ pc = "input"

----------------------------------------------------------------------------
(* SpecFn: the documented flow, normaliser then finding extractor.         *)

\* content = self._clean_text(content)
Normalize ==
    /\ pc = "input"
    /\ content' = CleanText(text)
    /\ pc' = "cleaned"
    /\ UNCHANGED <<text, content2, key_findings>>
    /\ UNCHANGED <<analyzerVars, callVars, sessionVars>>

\* _clean_text applied to its own output
NormalizeAgain ==
    /\ pc = "cleaned"
    /\ content2' = CleanText(content)
    /\ pc' = "recleaned"
    /\ UNCHANGED <<text, content, key_findings>>
    /\ UNCHANGED <<analyzerVars, callVars, sessionVars>>

\* self.extract_key_findings(content) with the patterns of __init__
Extract ==
    /\ pc = "cleaned"
    /\ key_findings' = extract_key_findings(findings_patterns, content).findings
    /\ pc' = "extracted"
    /\ UNCHANGED <<text, content, content2>>
    /\ UNCHANGED <<analyzerVars, callVars, sessionVars>>

NextFn == Normalize \/ NormalizeAgain \/ Extract

SpecFn == InitFn /\ [][NextFn]_vars

----------------------------------------------------------------------------
(* Spec: the analyzer object under any order of calls.                     *)

BoolStr(b) == IF b THEN "True" ELSE "False"

\* analyzer.process_file(f)
ProcessFile(f) ==
    \E r \in {process_file(reports, findings_patterns, f)} :
       /\ Len(r.reports) <= MaxReports
       /\ reports' = r.reports
       /\ op' = "process_file"
       /\ arg' = f.name
       /\ ret' = BoolStr(r.ret)
       /\ exported' = NoExport
       /\ UNCHANGED <<summary, findings_patterns, sessionVars, fnVars>>

\* analyzer.generate_summary()
GenerateSummary ==
    \E r \in {generate_summary(reports, summary)} :
       /\ summary' = r.summary
       /\ op' = "generate_summary"
       /\ arg' = ""
       /\ ret' = r.ret
       /\ exported' = NoExport
       /\ UNCHANGED <<reports, findings_patterns, sessionVars, fnVars>>

\* analyzer.export_to_json()
ExportToJson ==
    /\ exported' = export_to_json(reports, summary)
    /\ op' = "export_to_json"
    /\ arg' = ""
    /\ ret' = "json"
    /\ UNCHANGED <<analyzerVars, sessionVars, fnVars>>

\* analyzer.format_summary()
FormatSummary ==
    /\ op' = "format_summary"
    /\ arg' = ""
    /\ ret' = format_summary(summary)
    /\ exported' = NoExport
    /\ UNCHANGED <<analyzerVars, sessionVars, fnVars>>

\* clear_data as it would be without line 274
ClearDataKeepingSummary ==
    /\ reports' = <<>>
    /\ op' = "clear_data"
    /\ arg' = ""
    /\ ret' = "None"
    /\ exported' = NoExport
    /\ UNCHANGED <<summary, findings_patterns, sessionVars, fnVars>>

\* analyzer.clear_data()
ClearData ==
    /\ reports' = <<>>
    /\ summary' = EmptyDict
    /\ op' = "clear_data"
    /\ arg' = ""
    /\ ret' = "None"
    /\ exported' = NoExport
    /\ UNCHANGED <<findings_patterns, sessionVars, fnVars>>

\* lines 576-585: a pattern field of the Settings tab is edited
SetPattern(category, new_pattern) ==
    /\ findings_patterns.is_dict
    /\ category \in DOMAIN findings_patterns.items
    /\ new_pattern # findings_patterns.items[category]
    /\ findings_patterns' = set_pattern(findings_patterns, category, new_pattern)
    /\ op' = "set_pattern"
    /\ arg' = ""
    /\ ret' = "None"
    /\ exported' = NoExport
    /\ UNCHANGED <<reports, summary, sessionVars, fnVars>>

\* lines 618-627: a configuration file is loaded
LoadConfig(cfg) ==
    /\ findings_patterns' = load_config(findings_patterns, cfg)
    /\ op' = "load_config"
    /\ arg' = ""
    /\ ret' = load_message(cfg)
    /\ exported' = NoExport
    /\ UNCHANGED <<reports, summary, sessionVars, fnVars>>

Next ==
    \/ \E f \in Files : ProcessFile(f)
    \/ GenerateSummary
    \/ ExportToJson
    \/ FormatSummary
    \/ ClearData
    \/ \E p \in TypedPatterns : SetPattern("diagnoses", p)
    \/ \E cfg \in Configs : LoadConfig(cfg)

Spec == Init /\ [][Next]_vars

----------------------------------------------------------------------------
(* SpecMain: the Streamlit script main().  Every user interaction reruns   *)
(* the script from its first line to its last; the session state and the   *)
(* widgets persist between runs.  A text_input returns what the user typed *)
(* in the run the edit starts; in every other run it is taken to return    *)
(* its value= argument, the registry's pattern as it is at that line.      *)
(* An exception main() does not catch ends the run where it is raised.     *)

\* st.session_state, with the export_data of the run and how the run ended
Session ==
    [reports |-> reports,
     summary |-> summary,
     findings_patterns |-> findings_patterns,
     uploaded_files_count |-> uploaded_files_count,
     processed_files |-> processed_files,
     edited_summary |-> edited_summary,
     exported |-> NoExport,
     run |-> "completed"]

\* lines 403-407: the Reset All Data button, before st.rerun()
ResetAllData(s) ==
    [s EXCEPT !.reports = <<>>,
              !.summary = EmptyDict,
              !.edited_summary = "",
              !.uploaded_files_count = 0,
              !.processed_files = <<>>]

\* lines 449-450 for one file: process_file, then processed_files.append
process_one(s, file) ==
    Only({[s EXCEPT !.reports = r.reports,
                    !.processed_files =
                        IF r.ret THEN Append(@, file.name) ELSE @] :
          r \in {process_file(s.reports, s.findings_patterns, file)}})

\* the loop as it would be if a failing file ended it
RECURSIVE process_files_until_failure(_, _)
process_files_until_failure(s, files) ==
    IF files = <<>> THEN s
    ELSE LET s1 == process_one(s, Head(files))
         IN IF s1.reports = s.reports THEN s1
            ELSE process_files_until_failure(s1, Tail(files))

\* lines 448-455: the loop over the uploaded files
RECURSIVE process_files(_, _)
process_files(s, files) ==
    IF files = <<>> THEN s
    ELSE Only({process_files(s1, Tail(files)) :
               s1 \in {process_one(s, Head(files))}})

\* lines 439-457: the Process Files button
ProcessFiles(s, files) ==
    process_files([s EXCEPT !.reports = <<>>,
                            !.summary = EmptyDict,
                            !.findings_patterns = DefaultPatterns,
                            !.processed_files = <<>>],
                  files)

\* lines 414-459: the Upload & Process tab
UploadTab(s, files, process_button) ==
    LET s1 == IF files # <<>> /\ Len(files) # s.uploaded_files_count
              THEN [s EXCEPT !.uploaded_files_count = Len(files),
                             !.processed_files = <<>>]
              ELSE s
    IN IF files # <<>> /\ process_button THEN ProcessFiles(s1, files) ELSE s1

\* lines 461-563: the Analysis & Results tab; analyze_button is bound only
\* when files are uploaded (line 437), so line 464 raises NameError without
\* them
AnalysisTab(s, files, analyze_button) ==
    IF s.reports = <<>> THEN s
    ELSE IF files = <<>> THEN [s EXCEPT !.run = "NameError"]
    ELSE IF ~(analyze_button \/ s.edited_summary # "") THEN s
    ELSE LET r == generate_summary(s.reports, s.summary)
         IN IF r.ret = "KeyError" THEN [s EXCEPT !.run = "KeyError"]
            ELSE [s EXCEPT !.summary = r.summary,
                           !.edited_summary = "text",
                           !.exported = export_to_json(s.reports, r.summary)]

\* lines 576-585: the pattern fields; edit is <<>> or the field the user
\* typed into and what was typed
PatternFields(patterns, edit) ==
    IF /\ edit # <<>>
       /\ edit[1].category \in DOMAIN patterns.items
       /\ edit[1].pattern # patterns.items[edit[1].category]
    THEN set_pattern(patterns, edit[1].category, edit[1].pattern)
    ELSE patterns

\* lines 565-627: the Settings tab; .items() of line 576 raises
\* AttributeError when the loaded "patterns" value is not a dict
SettingsTab(s, cfgfile, edit) ==
    IF s.run # "completed" THEN s
    ELSE IF ~s.findings_patterns.is_dict THEN [s EXCEPT !.run = "AttributeError"]
    ELSE LET edited == PatternFields(s.findings_patterns, edit)
         IN [s EXCEPT !.findings_patterns =
                IF cfgfile # <<>> THEN load_config(edited, cfgfile[1])
                ELSE edited]

\* the state a run leaves behind
RunLeaves(s, interaction, files, cfgfile) ==
    /\ reports' = s.reports
    /\ summary' = s.summary
    /\ findings_patterns' = s.findings_patterns
    /\ uploaded_files_count' = s.uploaded_files_count
    /\ processed_files' = s.processed_files
    /\ edited_summary' = s.edited_summary
    /\ exported' = s.exported
    /\ run' = s.run
    /\ uploaded_files' = files
    /\ config_file' = cfgfile
    /\ op' = interaction
    /\ arg' = ""
    /\ ret' = "None"
    /\ UNCHANGED fnVars

\* one run of main() from session state s0: the three tabs in the order of
\* the script
Script(s0, interaction, files, cfgfile, process_button, analyze_button, edit) ==
    \E s1 \in {UploadTab(s0, files, process_button)} :
    \E s2 \in {AnalysisTab(s1, files, analyze_button)} :
    \E s3 \in {SettingsTab(s2, cfgfile, edit)} :
        RunLeaves(s3, interaction, files, cfgfile)

\* the rerun after the upload widget changed to files
ChangeFiles(files) ==
    Script(Session, "upload", files, config_file, FALSE, FALSE, <<>>)

\* the user adds a file to the upload widget
AddFile(f) ==
    /\ Len(uploaded_files) < MaxFiles
    /\ ChangeFiles(Append(uploaded_files, f))

\* the user removes the i-th file from the upload widget
RemoveFile(i) ==
    /\ i \in 1..Len(uploaded_files)
    /\ ChangeFiles(SubSeq(uploaded_files, 1, i - 1)
                      \o SubSeq(uploaded_files, i + 1, Len(uploaded_files)))

\* the user clicks "Reset All Data": lines 403-409, then the rerun
ClickReset ==
    /\ TRUE
    /\ Script(ResetAllData(Session), "Reset All Data", uploaded_files,
              config_file, FALSE, FALSE, <<>>)

\* the user clicks "1. Process Files"
ClickProcess ==
    /\ uploaded_files # <<>>
    /\ Script(Session, "Process Files", uploaded_files, config_file,
              TRUE, FALSE, <<>>)

\* the user clicks "2. Generate Analysis"
ClickAnalyze ==
    /\ uploaded_files # <<>>
    /\ Script(Session, "Generate Analysis", uploaded_files, config_file,
              FALSE, TRUE, <<>>)

\* the user types a pattern into a field of the Settings tab
EditPattern(category, new_pattern) ==
    /\ run = "completed"
    /\ category \in DOMAIN findings_patterns.items
    /\ Script(Session, "edit pattern", uploaded_files, config_file,
              FALSE, FALSE,
              <<[category |-> category, pattern |-> new_pattern]>>)

\* the user uploads a configuration file, or removes it
ChangeConfig(cfgfile) ==
    /\ run = "completed"
    /\ cfgfile # config_file
    /\ Script(Session, "Load Configuration", uploaded_files, cfgfile,
              FALSE, FALSE, <<>>)

NextMain ==
    \/ \E f \in UploadableFiles : AddFile(f)
    \/ \E i \in 1..MaxFiles : RemoveFile(i)
    \/ ClickReset
    \/ ClickProcess
    \/ ClickAnalyze
    \/ \E p \in TypedPatterns : EditPattern("diagnoses", p)
    \/ \E cfg \in MainConfigs : ChangeConfig(<<cfg>>)
    \/ ChangeConfig(<<>>)

SpecMain == Init /\ [][NextMain]_vars

----------------------------------------------------------------------------
(* Properties.                                                             *)

\* process_file succeeds on f under the patterns of __init__: the extension
\* has a branch and the file can be read
Succeeds(f) == LowerStr(f.suffix) \in Supported /\ f.readable

NamesOf(fs) == [i \in 1..Len(fs) |-> fs[i].name]

\* C1 (SpecMain): after a "Process Files" run the record list holds exactly
\* one record per uploaded file that can be processed, in the order of the
\* upload; a file that fails adds no record and does not end the batch, and
\* processed_files lists the same names.
C1_BatchIsolatesFailures ==
    op = "Process Files" =>
        LET ok == SelectSeq(uploaded_files, Succeeds)
        IN /\ Len(reports) = Len(ok)
           /\ \A i \in 1..Len(ok) :
                 /\ reports[i].name = ok[i].name
                 /\ reports[i].content = CleanText(ok[i].text)
           /\ processed_files = NamesOf(ok)

\* a batch whose first file fails and whose second file is stored
C1_FailureThenSuccess ==
    /\ op = "Process Files"
    /\ Len(uploaded_files) = 2
    /\ ~Succeeds(uploaded_files[1])
    /\ Succeeds(uploaded_files[2])
    /\ Len(reports) = 1
    /\ reports[1].name = uploaded_files[2].name

\* C2 (Spec): after generate_summary over records, the stored summary lists
\* for each category the union of the records' findings of that category,
\* each string once, in ascending order.
C2_SummaryIsSortedUnion ==
    (op = "generate_summary" /\ reports # <<>>) =>
        /\ summary # EmptyDict
        /\ \A c \in Categories :
              /\ \A i \in 1..Len(summary.key_findings[c]) :
                    \A j \in (i + 1)..Len(summary.key_findings[c]) :
                        StrLess(summary.key_findings[c][i],
                                summary.key_findings[c][j])
              /\ Range(summary.key_findings[c]) =
                    UNION {Range(reports[i].key_findings[c]) :
                             i \in 1..Len(reports)}

\* the Summary of the records rs: none without records
CurrentSummary(rs) == IF rs = <<>> THEN EmptyDict ELSE BuildSummary(rs)

\* C3 (Spec): whenever export_to_json is called, the summary it exports is
\* the summary of the records it exports.
C3_ExportsCurrentSummary ==
    op = "export_to_json" =>
        exported.summary = CurrentSummary(exported.reports)

\* C4 (SpecMain): a "Process Files" run extracts the findings of every file
\* it stores with the registry as the Settings tab left it before the run.
C4_ProcessUsesEditedPatterns ==
    [][op' = "Process Files" =>
          \A i \in 1..Len(reports') :
              /\ findings_patterns.is_dict
              /\ \A k \in DOMAIN findings_patterns.items :
                    findings_patterns.items[k].valid
              /\ reports'[i].key_findings =
                    extract_key_findings(findings_patterns,
                                         reports'[i].content).findings]_vars

\* the registry is a dict with a pattern that is not a regular expression
HasInvalidPattern(patterns) ==
    /\ patterns.is_dict
    /\ \E k \in DOMAIN patterns.items : ~patterns.items[k].valid

\* the file a caller passed under this name
FileNamed(name) == CHOOSE f \in Files : f.name = name

\* C5 as stated (Spec): with an invalid pattern in the registry,
\* process_file returns False and adds no record, whatever the file holds,
\* and the stored records stay as they are.
C5_InvalidPatternFailsEveryFile ==
    [][(op' = "process_file" /\ HasInvalidPattern(findings_patterns)) =>
          (ret' = "False" /\ reports' = reports)]_vars

\* C5 as amended (Spec): with an invalid pattern in the registry,
\* process_file returns False and adds no record for every file whose
\* normalised text is not empty, and the stored records stay as they are
\* whatever the file holds.
C5_InvalidPatternFailsNonEmptyFile ==
    [][(op' = "process_file" /\ HasInvalidPattern(findings_patterns)) =>
          /\ CleanText(FileNamed(arg').text) # <<>> =>
                (ret' = "False" /\ reports' = reports)
          /\ Len(reports') >= Len(reports)
          /\ \A i \in 1..Len(reports) : reports'[i] = reports[i]]_vars

\* flu.txt has failed under an invalid pattern and the record stored before
\* is still there
C5_FailedUnderInvalidPattern ==
    /\ op = "process_file"
    /\ arg = "flu.txt"
    /\ ret = "False"
    /\ HasInvalidPattern(findings_patterns)
    /\ Len(reports) = 1
    /\ reports[1].name = "COLD.PDF"

\* C6 (Spec): the findings of every stored record and of the cached summary
\* have exactly the five category names as keys, and the findings of a
\* record with empty text are five empty lists.
C6_FiveCategoryKeys ==
    /\ \A i \in 1..Len(reports) :
          /\ DOMAIN reports[i].key_findings = Categories
          /\ reports[i].content = <<>> =>
                \A c \in Categories : reports[i].key_findings[c] = <<>>
    /\ summary # EmptyDict => DOMAIN summary.key_findings = Categories

\* a mapping of the five category names to pattern strings
IsPatternMapping(patterns) ==
    patterns.is_dict /\ DOMAIN patterns.items = Categories

\* C7 (Spec): a configuration load either reports success and has installed
\* a mapping of the five category names, or reports an error and has left
\* the registry as it was.
C7_LoadIsAllOrNothing ==
    [][op' = "load_config" =>
          \/ ret' = "success" /\ IsPatternMapping(findings_patterns')
          \/ ret' = "error" /\ findings_patterns' = findings_patterns]_vars

\* C8 (SpecFn): _clean_text applied to its own output returns it unchanged.
C8_CleanTextIdempotent ==
    pc = "recleaned" => content2 = content

\* C9 (SpecFn): the output of _clean_text has no newline, no two
\* consecutive spaces and no whitespace at either end, and is empty for the
\* empty input.
C9_CleanTextNormalForm ==
    pc = "cleaned" =>
        /\ \A i \in 1..Len(content) : content[i] # "\n"
        /\ \A i \in 1..(Len(content) - 1) :
              ~(content[i] = " " /\ content[i + 1] = " ")
        /\ content # <<>> =>
              (content[1] \notin WhiteSpace
                 /\ content[Len(content)] \notin WhiteSpace)
        /\ text = <<>> => content = <<>>

\* "Hypertension"
Hypertension == <<"H","y","p","e","r","t","e","n","s","i","o","n">>
\* "Lisinopril 10mg"
Lisinopril10mg ==
    <<"L","i","s","i","n","o","p","r","i","l"," ","1","0","m","g">>

\* C10 (SpecFn): the scenario text, normalised and then extracted with the
\* default patterns, gives diagnoses ["Hypertension"] and medications
\* ["Lisinopril 10mg"].
C10_ScenarioFindings ==
    (pc = "extracted" /\ text = ScenarioText) =>
        /\ key_findings["diagnoses"] = <<Hypertension>>
        /\ key_findings["medications"] = <<Lisinopril10mg>>

\* C11 (Spec): generate_summary over zero records returns the sentinel
\* "No reports have been processed yet." and raises nothing, in the initial
\* state and after clear_data alike.
C11_SentinelOnZeroRecords ==
    (op = "generate_summary" /\ reports = <<>>) => ret = "sentinel"

\* generate_summary has returned the sentinel over zero records
C11_SentinelReturned ==
    /\ op = "generate_summary"
    /\ reports = <<>>
    /\ ret = "sentinel"
    /\ summary = EmptyDict

\* C12 (SpecMain): no run other than "Reset All Data" removes, reorders or
\* changes a stored record, and a "Process Files" run adds one record per
\* uploaded file that can be processed, also for a name stored before.
C12_AppendOnlyBetweenResets ==
    [][op' # "Reset All Data" =>
          /\ Len(reports') >= Len(reports)
          /\ \A i \in 1..Len(reports) : reports'[i] = reports[i]
          /\ op' = "Process Files" =>
                Len(reports') =
                    Len(reports) + Len(SelectSeq(uploaded_files', Succeeds))]_vars

\* C13 (Spec): clear_data leaves no record and no cached summary, and as
\* long as there is no record (from a reset, or from construction, until
\* the next process_file that succeeds) there is no cached summary:
\* format_summary returns "No summary available." and export_to_json
\* exports no summary.
C13_ResetLeavesNoSummary ==
    /\ op = "clear_data" => reports = <<>>
    /\ reports = <<>> =>
          /\ summary = EmptyDict
          /\ op = "format_summary" => ret = "No summary available."
          /\ op = "export_to_json" => exported.summary = EmptyDict

\* clear_data has just run
C13_AfterClearData ==
    /\ op = "clear_data"
    /\ reports = <<>>
    /\ summary = EmptyDict
    /\ format_summary(summary) = "No summary available."

====
